---- MODULE Spec2Model ----
(***************************************************************************)
(* Model of the DICOM decode core of utevo/DICOM-viewer:                   *)
(*   - TransferSyntax_ (src/src/dicom/domain/common.ts and the copy kept   *)
(*     inside DicomImage.ts, src/unnamed/part_001 lines 335-388),          *)
(*   - DicomImage._fromDataSet (src/unnamed/part_001 lines 164-332),       *)
(*   - Image_.fromDicomImage (src/src/dicom/domain/Image.ts),              *)
(*   - PixelSpacing.fromString (src/src/dicom/domain/common.ts).           *)
(* Each operation has its own specification over the shared variables;     *)
(* the variables of the other operations stay at their idle values.        *)
(***************************************************************************)
EXTENDS Integers, Sequences, FiniteSets

VARIABLES
    uid,          \* resolver: the UID string handed to fromTransferSyntaxUID
    member,       \* resolver: the TransferSyntax member handed to toCompressionAndEndianness
    resolved,     \* resolver: results of the calls made so far
    pc,           \* extractor: position inside DicomImage._fromDataSet
    ds,           \* extractor: the part of the tag source read so far
    observed,     \* extractor: the tags the extractor has asked the tag source for
    locals,       \* extractor: the local constants of _fromDataSet
    extracted,    \* extractor: how _fromDataSet ended
    dicomImage,   \* decoder: the DicomImage handed to Image_.fromDicomImage
    image,        \* decoder: how Image_.fromDicomImage ended
    str,          \* pixel spacing: the string handed to PixelSpacing.fromString
    pixelSpacing  \* pixel spacing: what PixelSpacing.fromString returned

vars == <<uid, member, resolved, pc, ds, observed, locals, extracted,
          dicomImage, image, str, pixelSpacing>>

resolverVars == <<uid, member, resolved>>
extractorVars == <<pc, ds, observed, locals, extracted>>
decoderVars == <<dicomImage, image>>
pixelSpacingVars == <<str, pixelSpacing>>

----------------------------------------------------------------------------
(* Values shared by the operations.                                        *)

\* An optional value (undefined in the source) is a sequence of length 0 or 1.
None == <<>>
Some(v) == <<v>>

\* Result<T, string> of common/adt: ok(value) and err(message).
Ok(v) == [tag |-> "Ok", value |-> v]
Err(m) == [tag |-> "Err", value |-> m]

\* How a call ended: it returned a value, or it threw.
Returned(v) == [kind |-> "return", value |-> v]
Thrown(name, message) == [kind |-> "throw", error |-> name, message |-> message]
NotCalled == [kind |-> "none"]

TransferSyntax ==
    {"JPEG2000", "DecodeRLE", "JPEGLossless", "JPEGBaseline", "UncompressedLE", "UncompressedBE"}

Compression == {"NONE", "JPEG_LOSSLESS", "JPEG_BASELINE", "JPEG_2000", "RLE"}

Endianness == {"LITTLE_ENDIAN", "BIG_ENDIAN"}

----------------------------------------------------------------------------
(* Transfer Syntax Resolver.                                               *)

\* common.ts: match(...).with(...) returning ok(member), and err for the wildcard.
fromTransferSyntaxUID(transferSyntax) ==
    CASE transferSyntax \in {"1.2.840.10008.1.2", "1.2.840.10008.1.2.1"} -> Ok("UncompressedLE")
      [] transferSyntax = "1.2.840.10008.1.2.2" -> Ok("UncompressedBE")
      [] transferSyntax \in {"1.2.840.10008.1.2.4.90", "1.2.840.10008.1.2.4.91"} -> Ok("JPEG2000")
      [] transferSyntax = "1.2.840.10008.1.2.5" -> Ok("DecodeRLE")
      [] transferSyntax \in {"1.2.840.10008.1.2.4.57", "1.2.840.10008.1.2.4.70"} -> Ok("JPEGLossless")
      [] transferSyntax \in {"1.2.840.10008.1.2.4.50", "1.2.840.10008.1.2.4.51"} -> Ok("JPEGBaseline")
      [] OTHER -> Err("Unexpected transfer syntax")

\* DicomImage.ts: the switch whose default label shares the UncompressedBE case.
\* The argument is optional: dataSet.string gives undefined for an absent tag.
fromTransferSyntaxUIDSwitch(transferSyntaxUID) ==
    CASE transferSyntaxUID \in {Some("1.2.840.10008.1.2.4.90"), Some("1.2.840.10008.1.2.4.91")} -> "JPEG2000"
      [] transferSyntaxUID = Some("1.2.840.10008.1.2.5") -> "DecodeRLE"
      [] transferSyntaxUID \in {Some("1.2.840.10008.1.2.4.57"), Some("1.2.840.10008.1.2.4.70")} -> "JPEGLossless"
      [] transferSyntaxUID \in {Some("1.2.840.10008.1.2.4.50"), Some("1.2.840.10008.1.2.4.51")} -> "JPEGBaseline"
      [] transferSyntaxUID \in {Some("1.2.840.10008.1.2"), Some("1.2.840.10008.1.2.1")} -> "UncompressedLE"
      [] OTHER -> "UncompressedBE"

\* A plausible slip: the big-endian member classified as little-endian.
toCompressionAndEndiannessAllLittle(transferSyntax) ==
    CASE transferSyntax = "UncompressedBE" -> <<"NONE", "LITTLE_ENDIAN">>
      [] transferSyntax = "UncompressedLE" -> <<"NONE", "LITTLE_ENDIAN">>
      [] transferSyntax = "DecodeRLE" -> <<"RLE", "LITTLE_ENDIAN">>
      [] transferSyntax = "JPEGLossless" -> <<"JPEG_LOSSLESS", "LITTLE_ENDIAN">>
      [] transferSyntax = "JPEG2000" -> <<"JPEG_2000", "LITTLE_ENDIAN">>
      [] transferSyntax = "JPEGBaseline" -> <<"JPEG_BASELINE", "LITTLE_ENDIAN">>

\* common.ts: the exhaustive match over the six members.
toCompressionAndEndianness(transferSyntax) ==
    CASE transferSyntax = "UncompressedBE" -> <<"NONE", "BIG_ENDIAN">>
      [] transferSyntax = "UncompressedLE" -> <<"NONE", "LITTLE_ENDIAN">>
      [] transferSyntax = "DecodeRLE" -> <<"RLE", "LITTLE_ENDIAN">>
      [] transferSyntax = "JPEGLossless" -> <<"JPEG_LOSSLESS", "LITTLE_ENDIAN">>
      [] transferSyntax = "JPEG2000" -> <<"JPEG_2000", "LITTLE_ENDIAN">>
      [] transferSyntax = "JPEGBaseline" -> <<"JPEG_BASELINE", "LITTLE_ENDIAN">>

\* DicomImage.ts: the same table as a switch.
toCompressionAndEndiannessSwitch(transferSyntax) ==
    CASE transferSyntax = "UncompressedBE" -> <<"NONE", "BIG_ENDIAN">>
      [] transferSyntax = "UncompressedLE" -> <<"NONE", "LITTLE_ENDIAN">>
      [] transferSyntax = "DecodeRLE" -> <<"RLE", "LITTLE_ENDIAN">>
      [] transferSyntax = "JPEGLossless" -> <<"JPEG_LOSSLESS", "LITTLE_ENDIAN">>
      [] transferSyntax = "JPEG2000" -> <<"JPEG_2000", "LITTLE_ENDIAN">>
      [] transferSyntax = "JPEGBaseline" -> <<"JPEG_BASELINE", "LITTLE_ENDIAN">>

\* The ten UIDs of the table.
RecognizedUIDs ==
    {"1.2.840.10008.1.2", "1.2.840.10008.1.2.1", "1.2.840.10008.1.2.2",
     "1.2.840.10008.1.2.4.90", "1.2.840.10008.1.2.4.91", "1.2.840.10008.1.2.5",
     "1.2.840.10008.1.2.4.57", "1.2.840.10008.1.2.4.70",
     "1.2.840.10008.1.2.4.50", "1.2.840.10008.1.2.4.51"}

\* Strings outside the table: other registered UIDs (JPEG-LS, deflated LE), a
\* prefix of a table entry, a table entry with trailing blank, a member name, "".
UnrecognizedUIDs ==
    {"1.2.840.10008.1.2.4.80", "1.2.840.10008.1.2.1.99", "1.2.840.10008.1",
     "1.2.840.10008.1.2.1 ", "UncompressedLE", ""}

UIDInputs == RecognizedUIDs \cup UnrecognizedUIDs

IdleResolved == [common |-> NotCalled, switch |-> NotCalled, classified |-> NotCalled,
                 classifiedSwitch |-> NotCalled]

ResolverIdle ==
    /\ uid = ""
    /\ member = "UncompressedLE"
    /\ resolved = IdleResolved

ResolveUID ==
    /\ resolved.common.kind = "none"
    /\ resolved' = [resolved EXCEPT !.common = Returned(fromTransferSyntaxUID(uid))]
    /\ UNCHANGED <<uid, member, extractorVars, decoderVars, pixelSpacingVars>>

ResolveUIDSwitch ==
    /\ resolved.switch.kind = "none"
    /\ resolved' = [resolved EXCEPT !.switch = Returned(fromTransferSyntaxUIDSwitch(Some(uid)))]
    /\ UNCHANGED <<uid, member, extractorVars, decoderVars, pixelSpacingVars>>

Classify ==
    /\ resolved.classified.kind = "none"
    /\ resolved' = [resolved EXCEPT !.classified = Returned(toCompressionAndEndianness(member))]
    /\ UNCHANGED <<uid, member, extractorVars, decoderVars, pixelSpacingVars>>

ClassifySwitch ==
    /\ resolved.classifiedSwitch.kind = "none"
    /\ resolved' = [resolved EXCEPT
                      !.classifiedSwitch = Returned(toCompressionAndEndiannessSwitch(member))]
    /\ UNCHANGED <<uid, member, extractorVars, decoderVars, pixelSpacingVars>>

----------------------------------------------------------------------------
(* Sample Decoder: Image_.fromDicomImage and Image_._fromDataForImageGrayScale. *)

\* Longest pixel-data buffer of the decoder's inputs, in bytes.
MaxPixelBytes == 4

\* Byte values of the buffers: two distinct values, small enough for a 32-bit
\* element to stay below 2^31.
ByteValues == {1, 127}

BytesUpTo(n) == UNION {[1..k -> ByteValues] : k \in 0..n}

RECURSIVE LittleEndianValue(_)
\* The number a typed array element has when its bytes are read lowest byte first.
LittleEndianValue(bytes) ==
    IF bytes = <<>> THEN 0 ELSE Head(bytes) + 256 * LittleEndianValue(Tail(bytes))

RECURSIVE BigEndianValue(_)
\* The number the same bytes give when read highest byte first.
BigEndianValue(bytes) ==
    IF bytes = <<>> THEN 0
    ELSE BigEndianValue(SubSeq(bytes, 1, Len(bytes) - 1)) * 256 + bytes[Len(bytes)]

\* A slip of the element read: the element's bytes taken highest byte first.
ElementValueSwapped(bytes) == BigEndianValue(bytes)

\* An element of a Uint8Array, Uint16Array or Uint32Array is read in the byte
\* order of the platform; every engine the viewer runs on is little-endian.
ElementValue(bytes) == LittleEndianValue(bytes)

\* new Uint8Array(buffer), new Uint16Array(buffer), new Uint32Array(buffer): a
\* view of the whole buffer; a RangeError when the buffer's byte length is not
\* a multiple of the element size.
TypedArray(buffer, bits) ==
    LET size == bits \div 8 IN
    IF Len(buffer) % size # 0
    THEN Thrown("RangeError", "byte length should be a multiple of the element size")
    ELSE Returned([bits |-> bits,
                   elements |-> [i \in 1..(Len(buffer) \div size) |->
                                   ElementValue(SubSeq(buffer, (i - 1) * size + 1, i * size))]])

\* The checks of _fromDataForImageGrayScale, in the order of the source.
NotSupportedPixelDataVr(pixelDataVr, bitsAllocated) == pixelDataVr = "OW" /\ bitsAllocated # 16

\* A slip: the bit-layout check left out.
BitLayoutUnchecked(highBit, bitsStored) == FALSE

NotSupportedBitLayout(highBit, bitsStored) == highBit + 1 # bitsStored

\* A slip: the Monochrome1 check left out, so inverted images decode as they are.
PhotometricUnchecked(photometricInterpratation) == FALSE

NotSupportedPhotometricInterpratation(photometricInterpratation) ==
    photometricInterpratation = "MONOCHROME1"

NotSupportedPixelRepresentation(pixelRepresentation) == pixelRepresentation = "SIGNED"

imagePixelData(bitsAllocated, pixelData) ==
    IF bitsAllocated = 8 THEN TypedArray(pixelData, 8)
    ELSE IF bitsAllocated = 16 THEN TypedArray(pixelData, 16)
    ELSE IF bitsAllocated = 32 THEN TypedArray(pixelData, 32)
    ELSE Thrown("Error", "Not supported bitsAllocated")

\* data: the nine fields fromDicomImage passes on. pixelData is the Uint8Array
\* built by _fromDataSet, which owns its buffer, so pixelData.buffer is its bytes.
_fromDataForImageGrayScale(data) ==
    IF NotSupportedPixelDataVr(data.pixelDataVr, data.bitsAllocated)
    THEN Thrown("Error", "Not supported pixelData VR")
    ELSE IF NotSupportedBitLayout(data.highBit, data.bitsStored)
    THEN Thrown("Error", "Not supported combination of hightBit and bitsStored")
    ELSE IF NotSupportedPhotometricInterpratation(data.photometricInterpratation)
    THEN Thrown("Error", "Not supported photometricInterpratation")
    ELSE IF NotSupportedPixelRepresentation(data.pixelRepresentation)
    THEN Thrown("Error", "Not supported pixelRepresentation")
    ELSE LET samples == imagePixelData(data.bitsAllocated, data.pixelData) IN
         IF samples.kind = "throw" THEN samples
         ELSE Returned([type |-> "grayScale",
                        rows |-> data.rows,
                        columns |-> data.columns,
                        pixelData |-> samples.value])

\* The color placeholder: the buffer viewed as 32-bit pixels, nothing else read.
\* No code calls it.
_rgbFrom(d) ==
    LET pixels == TypedArray(d.pixelData, 32) IN
    IF pixels.kind = "throw" THEN pixels
    ELSE Returned([type |-> "rgb", rows |-> d.rows, columns |-> d.columns,
                   pixelData |-> pixels.value])

\* A slip: images that miss the grayscale conditions handed to the placeholder.
fromDicomImageRgbFallback(d) ==
    IF /\ d.compression = "NONE"
       /\ d.photometricInterpratation \in {"MONOCHROME1", "MONOCHROME2"}
       /\ d.samplePerPixel = 1
    THEN _fromDataForImageGrayScale(d)
    ELSE _rgbFrom(d)

fromDicomImage(d) ==
    IF /\ d.compression = "NONE"
       /\ d.photometricInterpratation \in {"MONOCHROME1", "MONOCHROME2"}
       /\ d.samplePerPixel = 1
    THEN _fromDataForImageGrayScale(d)
    ELSE Thrown("Error", "Couldn't convert to Image")

\* The DicomImage values the decoder is run on. compression and endianness come
\* from a TransferSyntax member, as _fromDataSet derives them.
DicomImages ==
    {[compression |-> toCompressionAndEndiannessSwitch(ts)[1],
      endianness |-> toCompressionAndEndiannessSwitch(ts)[2],
      rows |-> r, columns |-> c, samplePerPixel |-> spp,
      photometricInterpratation |-> pi,
      bitsAllocated |-> ba, bitsStored |-> bs, highBit |-> hb,
      pixelRepresentation |-> pr, pixelData |-> bytes, pixelDataVr |-> vr] :
        ts \in TransferSyntax, r \in {1, 2}, c \in {1, 2}, spp \in {1, 3},
        pi \in {"MONOCHROME1", "MONOCHROME2", "RGB"},
        ba \in {8, 12, 16, 32}, bs \in {8, 16}, hb \in {7, 15},
        pr \in {"UNSIGNED", "SIGNED"}, bytes \in BytesUpTo(MaxPixelBytes),
        vr \in {"OB", "OW"}}

IdleDicomImage ==
    [compression |-> "NONE", endianness |-> "LITTLE_ENDIAN", rows |-> 1, columns |-> 1,
     samplePerPixel |-> 1, photometricInterpratation |-> "MONOCHROME2",
     bitsAllocated |-> 8, bitsStored |-> 8, highBit |-> 7,
     pixelRepresentation |-> "UNSIGNED", pixelData |-> <<>>, pixelDataVr |-> "OB"]

DecoderIdle ==
    /\ dicomImage = IdleDicomImage
    /\ image = NotCalled

FromDicomImage ==
    /\ image.kind = "none"
    /\ image' = fromDicomImage(dicomImage)
    /\ UNCHANGED <<dicomImage, resolverVars, extractorVars, pixelSpacingVars>>

----------------------------------------------------------------------------
(* Metadata Extractor: DicomImage._fromDataSet.                            *)
(* The tag source (dicom-parser's DataSet) is immutable and the extractor  *)
(* asks for each tag at one place, so the source is drawn tag by tag, at   *)
(* the step that reads it: ds holds what has been read, observed the tags  *)
(* asked for. A getter (string, uint16, floatString) gives None for an     *)
(* absent or empty element.                                                *)

\* Longest pixel-data element of the extractor's tag sources, in bytes.
MaxElementLength == 2

Tags ==
    {"x00020012", "x00280010", "x00280011", "x00280002", "x00280004", "x00280006",
     "x00280100", "x00280101", "x00280102", "x00280103", "x7fe00010", "byteArray",
     "x00281050", "x00281051", "x00281056", "x00283010"}

Optional(S) == {None} \cup {Some(v) : v \in S}

\* What the tag source may hold under each tag.
TransferSyntaxUIDValues ==
    Optional({"1.2.840.10008.1.2.1", "1.2.840.10008.1.2.2", "1.2.840.10008.1.2.4.50",
              "1.2.840.10008.1.2.4.80"})
RowsValues == Optional({2})
ColumnsValues == Optional({3})
SamplePerPixelValues == Optional({1})
PhotometricValues == Optional({"MONOCHROME2", "RGB"})
PlanarValues == Optional({0, 1, 2})
BitsAllocatedValues == Optional({8, 16})
BitsStoredValues == Optional({16})
HighBitValues == Optional({15})
PixelRepresentationValues == Optional({0, 1, 2})
PixelDataElements ==
    Optional({[vr |-> v, length |-> n, dataOffset |-> o] :
                v \in Optional({"OB", "OW", "UN"}), n \in 0..MaxElementLength, o \in {0, 1}})
WindowCenterValues == Optional({40})
WindowWidthValues == Optional({400})
VoiLutFunctionValues == Optional({"LINEAR", "SIGMOID"})

IdleLocals ==
    [compression |-> None, endianness |-> None, rows |-> None, columns |-> None,
     samplePerPixel |-> None, photometricInterpratation |-> None,
     planarConfiguration |-> None, bitsAllocated |-> None, bitsStored |-> None,
     highBit |-> None, pixelRepresentation |-> None, pixelDataElement |-> None,
     pixelDataVr |-> None, pixelData |-> None, windowCenter |-> None,
     windowWidth |-> None, voiLutFunction |-> None]

ExtractorInit ==
    /\ pc = "transferSyntax"
    /\ ds = [t \in Tags |-> None]
    /\ observed = {}
    /\ locals = IdleLocals
    /\ extracted = NotCalled

ExtractorIdle ==
    /\ pc = "idle"
    /\ ds = [t \in Tags |-> None]
    /\ observed = {}
    /\ locals = IdleLocals
    /\ extracted = NotCalled

\* The getter's answer for tag is v.
Read(tag, v) ==
    /\ ds' = [ds EXCEPT ![tag] = v]
    /\ observed' = observed \cup {tag}

\* return {_tag: ResultTag.Err, value: message}
ReturnErr(message) ==
    /\ extracted' = Returned(Err(message))
    /\ pc' = "done"
    /\ UNCHANGED locals

\* A required uint16 tag: read it, return the Err when it is null, else keep it.
RequireTag(at, tag, values, field, message, next) ==
    /\ pc = at
    /\ \E v \in values :
         /\ Read(tag, v)
         /\ IF v = None
            THEN ReturnErr(message)
            ELSE /\ locals' = [locals EXCEPT ![field] = v]
                 /\ pc' = next
                 /\ UNCHANGED extracted
    /\ UNCHANGED <<resolverVars, decoderVars, pixelSpacingVars>>

ReadTransferSyntax ==
    /\ pc = "transferSyntax"
    /\ \E v \in TransferSyntaxUIDValues :
         LET transferSyntax == fromTransferSyntaxUIDSwitch(v)
             pair == toCompressionAndEndiannessSwitch(transferSyntax)
         IN /\ Read("x00020012", v)
            /\ locals' = [locals EXCEPT !.compression = Some(pair[1]),
                                        !.endianness = Some(pair[2])]
    /\ pc' = "rows"
    /\ UNCHANGED <<extracted, resolverVars, decoderVars, pixelSpacingVars>>

\* A slip of the rows step: the value is kept without the null check.
ReadRowsUnchecked ==
    /\ pc = "rows"
    /\ \E v \in RowsValues :
         /\ Read("x00280010", v)
         /\ locals' = [locals EXCEPT !.rows = v]
    /\ pc' = "columns"
    /\ UNCHANGED <<extracted, resolverVars, decoderVars, pixelSpacingVars>>

ReadRows ==
    RequireTag("rows", "x00280010", RowsValues, "rows", "DicomImage need to have rows", "columns")

ReadColumns ==
    RequireTag("columns", "x00280011", ColumnsValues, "columns",
               "DicomImage need to have columns", "samplePerPixel")

ReadSamplePerPixel ==
    RequireTag("samplePerPixel", "x00280002", SamplePerPixelValues, "samplePerPixel",
               "DicomImage need to have samplePerPixel", "photometricInterpratation")

\* The string is cast to the enumeration without validation.
ReadPhotometricInterpratation ==
    RequireTag("photometricInterpratation", "x00280004", PhotometricValues,
               "photometricInterpratation",
               "DicomImage need to have photometricInterpratation", "planarConfiguration")

ReadPlanarConfiguration ==
    /\ pc = "planarConfiguration"
    /\ \E v \in PlanarValues :
         LET planarConfigurationValue == IF v = None THEN 0 ELSE v[1] IN
         /\ Read("x00280006", v)
         /\ IF planarConfigurationValue \in {0, 1}
            THEN /\ locals' = [locals EXCEPT !.planarConfiguration = Some(planarConfigurationValue)]
                 /\ pc' = "bitsAllocated"
                 /\ UNCHANGED extracted
            ELSE ReturnErr("DicomImage have incorrect planarConfiguration")
    /\ UNCHANGED <<resolverVars, decoderVars, pixelSpacingVars>>

ReadBitsAllocated ==
    RequireTag("bitsAllocated", "x00280100", BitsAllocatedValues, "bitsAllocated",
               "DicomImage need to have bitsAllocated", "bitsStored")

ReadBitsStored ==
    RequireTag("bitsStored", "x00280101", BitsStoredValues, "bitsStored",
               "DicomImage need to have bitsStored", "highBit")

ReadHighBit ==
    RequireTag("highBit", "x00280102", HighBitValues, "highBit",
               "DicomImage need to have highBit", "pixelRepresentation")

ReadPixelRepresentation ==
    /\ pc = "pixelRepresentation"
    /\ \E v \in PixelRepresentationValues :
         /\ Read("x00280103", v)
         /\ IF v = None
            THEN ReturnErr("DicomImage need to have pixelRepresentationValue")
            ELSE IF v[1] = 0
            THEN /\ locals' = [locals EXCEPT !.pixelRepresentation = Some("UNSIGNED")]
                 /\ pc' = "pixelDataElement"
                 /\ UNCHANGED extracted
            ELSE IF v[1] = 1
            THEN /\ locals' = [locals EXCEPT !.pixelRepresentation = Some("SIGNED")]
                 /\ pc' = "pixelDataElement"
                 /\ UNCHANGED extracted
            ELSE ReturnErr("Unexpected value of pixelRepresentation")
    /\ UNCHANGED <<resolverVars, decoderVars, pixelSpacingVars>>

\* dataSet.elements.x7fe00010 and its vr: reading .vr of an absent element is a
\* TypeError; an element without vr (implicit VR) counts as "OB".
ReadPixelDataElement ==
    /\ pc = "pixelDataElement"
    /\ \E e \in PixelDataElements :
         /\ Read("x7fe00010", e)
         /\ IF e = None
            THEN /\ extracted' = Thrown("TypeError", "Cannot read properties of undefined")
                 /\ pc' = "done"
                 /\ UNCHANGED locals
            ELSE LET pixelDataVrValue == IF e[1].vr = None THEN "OB" ELSE e[1].vr[1] IN
                 IF pixelDataVrValue \in {"OB", "OW"}
                 THEN /\ locals' = [locals EXCEPT !.pixelDataElement = e,
                                                  !.pixelDataVr = Some(pixelDataVrValue)]
                      /\ pc' = "pixelData"
                      /\ UNCHANGED extracted
                 ELSE ReturnErr("Unexpected pixelData VR")
    /\ UNCHANGED <<resolverVars, decoderVars, pixelSpacingVars>>

\* new Uint8Array(length) filled from dataSet.byteArray[dataOffset + idx]; the
\* element lies inside the byte array it was parsed from. The byte array is
\* read only inside the loop: for an element of length 0 the loop body does not
\* run and dataSet.byteArray is never asked for.
CopyPixelData ==
    /\ pc = "pixelData"
    /\ LET element == locals.pixelDataElement[1] IN
       IF element.length = 0
       THEN /\ locals' = [locals EXCEPT !.pixelData = Some(<<>>)]
            /\ UNCHANGED <<ds, observed>>
       ELSE \E byteArray \in [1..(element.dataOffset + element.length) -> ByteValues] :
              /\ Read("byteArray", byteArray)
              /\ locals' = [locals EXCEPT
                              !.pixelData = Some([idx \in 1..element.length |->
                                                    byteArray[element.dataOffset + idx]])]
    /\ pc' = "voiLut"
    /\ UNCHANGED <<extracted, resolverVars, decoderVars, pixelSpacingVars>>

\* A slip of the defaulting: Linear whenever the function tag is absent.
voiLutFunctionAlwaysLinear(functionTag, windowCenter) ==
    IF functionTag # None THEN functionTag ELSE Some("LINEAR")

\* The conditional of lines 286-291.
voiLutFunctionOf(functionTag, windowCenter) ==
    IF functionTag # None THEN functionTag
    ELSE IF windowCenter # None THEN Some("LINEAR")
    ELSE None

ReadVoiLut ==
    /\ pc = "voiLut"
    /\ \E center \in WindowCenterValues, width \in WindowWidthValues,
          function \in VoiLutFunctionValues :
         /\ ds' = [ds EXCEPT !["x00281050"] = center, !["x00281051"] = width,
                             !["x00281056"] = function]
         /\ observed' = observed \cup {"x00281050", "x00281051", "x00281056"}
         /\ locals' = [locals EXCEPT !.windowCenter = center, !.windowWidth = width,
                                     !.voiLutFunction = voiLutFunctionOf(function, center)]
    /\ pc' = "voiLutSequence"
    /\ UNCHANGED <<extracted, resolverVars, decoderVars, pixelSpacingVars>>

\* The VOI LUT sequence check and the final return.
ReturnDicomImage ==
    /\ pc = "voiLutSequence"
    /\ \E voiLutSequenceElement \in Optional({"SQ"}) :
         /\ Read("x00283010", voiLutSequenceElement)
         /\ IF voiLutSequenceElement # None
            THEN ReturnErr("Not supported voiLutSequence")
            ELSE /\ extracted' = Returned(Ok(
                       [compression |-> locals.compression[1],
                        endianness |-> locals.endianness[1],
                        rows |-> locals.rows[1],
                        columns |-> locals.columns[1],
                        samplePerPixel |-> locals.samplePerPixel[1],
                        photometricInterpratation |-> locals.photometricInterpratation[1],
                        planarConfiguration |-> locals.planarConfiguration[1],
                        bitsAllocated |-> locals.bitsAllocated[1],
                        bitsStored |-> locals.bitsStored[1],
                        highBit |-> locals.highBit[1],
                        pixelRepresentation |-> locals.pixelRepresentation[1],
                        voiLutModule |-> [windowCenter |-> locals.windowCenter,
                                          windowWidth |-> locals.windowWidth,
                                          voiLutFunction |-> locals.voiLutFunction],
                        pixelData |-> locals.pixelData[1],
                        pixelDataVr |-> locals.pixelDataVr[1]]))
                 /\ pc' = "done"
                 /\ UNCHANGED locals
    /\ UNCHANGED <<resolverVars, decoderVars, pixelSpacingVars>>

----------------------------------------------------------------------------
(* PixelSpacing.fromString. A string is a sequence of characters.          *)

\* Longest string handed to PixelSpacing.fromString.
MaxStrLen == 5

\* The characters of the inputs: digits, the decimal point, a letter and the
\* backslash that separates the fields.
Chars == {"0", "5", ".", "a", "\\"}

StringsUpTo(n) == UNION {[1..k -> Chars] : k \in 0..n}

DigitChars == <<"0", "1", "2", "3", "4", "5", "6", "7", "8", "9">>

IsDigit(c) == \E d \in 1..10 : DigitChars[d] = c

DigitValue(c) == (CHOOSE d \in 1..10 : DigitChars[d] = c) - 1

RECURSIVE split(_)
\* String.prototype.split("\\"): the pieces between the backslashes, empty ones kept.
split(s) ==
    IF \A i \in 1..Len(s) : s[i] # "\\"
    THEN <<s>>
    ELSE LET i == CHOOSE k \in 1..Len(s) : s[k] = "\\" /\ \A j \in 1..(k - 1) : s[j] # "\\"
         IN <<SubSeq(s, 1, i - 1)>> \o split(SubSeq(s, i + 1, Len(s)))

\* Length of the longest prefix of s made of digits.
RECURSIVE DigitRun(_)
DigitRun(s) == IF s # <<>> /\ IsDigit(Head(s)) THEN 1 + DigitRun(Tail(s)) ELSE 0

RECURSIVE DigitsValue(_)
DigitsValue(s) ==
    IF s = <<>> THEN 0
    ELSE DigitsValue(SubSeq(s, 1, Len(s) - 1)) * 10 + DigitValue(s[Len(s)])

RECURSIVE Normalized(_, _)
\* num / 10^pow without trailing zeros in the fraction.
Normalized(num, pow) ==
    IF pow > 0 /\ num % 10 = 0 THEN Normalized(num \div 10, pow - 1)
    ELSE [nan |-> FALSE, num |-> num, pow |-> pow]

NaN == [nan |-> TRUE, num |-> 0, pow |-> 0]

\* Number.parseFloat on the characters above: the longest prefix that is a
\* decimal literal (digits, digits "." digits, "." digits) is converted and the
\* rest ignored; NaN when no prefix is one. It never throws.
parseFloat(s) ==
    LET whole == DigitRun(s)
        rest == SubSeq(s, whole + 1, Len(s))
        fraction == IF rest # <<>> /\ Head(rest) = "." THEN DigitRun(Tail(rest)) ELSE 0
    IN IF whole = 0 /\ fraction = 0 THEN NaN
       ELSE Normalized(DigitsValue(SubSeq(s, 1, whole) \o SubSeq(rest, 2, fraction + 1)),
                       fraction)

\* The try block cannot fail (parseFloat does not throw), so the catch is dead.
fromString(s) ==
    LET rawNumbers == split(s) IN
    IF Len(rawNumbers) # 2
    THEN Err("Invalid value of Pixel Spacing")
    ELSE Ok([row |-> parseFloat(rawNumbers[1]), column |-> parseFloat(rawNumbers[2])])

PixelSpacingIdle ==
    /\ str = <<>>
    /\ pixelSpacing = NotCalled

FromString ==
    /\ pixelSpacing.kind = "none"
    /\ pixelSpacing' = Returned(fromString(str))
    /\ UNCHANGED <<str, resolverVars, extractorVars, decoderVars>>

----------------------------------------------------------------------------
(* Specifications, one per operation.                                      *)

InitResolve ==
    /\ uid \in UIDInputs
    /\ member \in TransferSyntax
    /\ resolved = IdleResolved
    /\ ExtractorIdle /\ DecoderIdle /\ PixelSpacingIdle

NextResolve == ResolveUID \/ ResolveUIDSwitch \/ Classify \/ ClassifySwitch

SpecResolve == InitResolve /\ [][NextResolve]_vars

InitExtract == ExtractorInit /\ ResolverIdle /\ DecoderIdle /\ PixelSpacingIdle

NextExtract ==
    \/ ReadTransferSyntax
    \/ ReadRows
    \/ ReadColumns
    \/ ReadSamplePerPixel
    \/ ReadPhotometricInterpratation
    \/ ReadPlanarConfiguration
    \/ ReadBitsAllocated
    \/ ReadBitsStored
    \/ ReadHighBit
    \/ ReadPixelRepresentation
    \/ ReadPixelDataElement
    \/ CopyPixelData
    \/ ReadVoiLut
    \/ ReturnDicomImage

SpecExtract == InitExtract /\ [][NextExtract]_vars

InitDecode ==
    /\ dicomImage \in DicomImages
    /\ image = NotCalled
    /\ ResolverIdle /\ ExtractorIdle /\ PixelSpacingIdle

NextDecode == FromDicomImage

SpecDecode == InitDecode /\ [][NextDecode]_vars

InitPixelSpacing ==
    /\ str \in StringsUpTo(MaxStrLen)
    /\ pixelSpacing = NotCalled
    /\ ResolverIdle /\ ExtractorIdle /\ DecoderIdle

NextPixelSpacing == FromString

SpecPixelSpacing == InitPixelSpacing /\ [][NextPixelSpacing]_vars

----------------------------------------------------------------------------
(* Transfer Syntax Resolver: properties (under SpecResolve).               *)

\* The member documented for each UID of the table.
DocumentedMember(u) ==
    CASE u \in {"1.2.840.10008.1.2", "1.2.840.10008.1.2.1"} -> "UncompressedLE"
      [] u = "1.2.840.10008.1.2.2" -> "UncompressedBE"
      [] u \in {"1.2.840.10008.1.2.4.90", "1.2.840.10008.1.2.4.91"} -> "JPEG2000"
      [] u = "1.2.840.10008.1.2.5" -> "DecodeRLE"
      [] u \in {"1.2.840.10008.1.2.4.57", "1.2.840.10008.1.2.4.70"} -> "JPEGLossless"
      [] u \in {"1.2.840.10008.1.2.4.50", "1.2.840.10008.1.2.4.51"} -> "JPEGBaseline"

\* C1: fromTransferSyntaxUID gives the documented member for each of the ten
\* recognized UIDs and a failure value, never a member, for any other string.
\* Stated of both implementations: the Result-returning match of common.ts and
\* the switch of DicomImage.ts that _fromDataSet calls.
C1_ResolveOrFail ==
    /\ resolved.common.kind = "return" =>
         IF uid \in RecognizedUIDs
         THEN resolved.common.value = Ok(DocumentedMember(uid))
         ELSE resolved.common.value.tag = "Err"
    /\ resolved.switch.kind = "return" =>
         IF uid \in RecognizedUIDs
         THEN resolved.switch.value = DocumentedMember(uid)
         ELSE resolved.switch.value \notin TransferSyntax

\* The pair documented for each member.
DocumentedPair(ts) ==
    CASE ts = "UncompressedLE" -> <<"NONE", "LITTLE_ENDIAN">>
      [] ts = "UncompressedBE" -> <<"NONE", "BIG_ENDIAN">>
      [] ts = "DecodeRLE" -> <<"RLE", "LITTLE_ENDIAN">>
      [] ts = "JPEGLossless" -> <<"JPEG_LOSSLESS", "LITTLE_ENDIAN">>
      [] ts = "JPEG2000" -> <<"JPEG_2000", "LITTLE_ENDIAN">>
      [] ts = "JPEGBaseline" -> <<"JPEG_BASELINE", "LITTLE_ENDIAN">>

\* C8: toCompressionAndEndianness gives every member a (Compression, Endianness)
\* pair, the documented one, and distinct members get distinct pairs.
C8_ClassifyTotalInjective ==
    /\ resolved.classified.kind = "return" =>
         /\ resolved.classified.value \in Compression \X Endianness
         /\ resolved.classified.value = DocumentedPair(member)
         /\ \A other \in TransferSyntax \ {member} :
              toCompressionAndEndianness(other) # resolved.classified.value
    /\ resolved.classifiedSwitch.kind = "return" =>
         /\ resolved.classifiedSwitch.value \in Compression \X Endianness
         /\ resolved.classifiedSwitch.value = DocumentedPair(member)
         /\ \A other \in TransferSyntax \ {member} :
              toCompressionAndEndiannessSwitch(other) # resolved.classifiedSwitch.value

C8_Witness ==
    /\ member = "UncompressedBE"
    /\ resolved.classified = Returned(<<"NONE", "BIG_ENDIAN">>)
    /\ resolved.classifiedSwitch = Returned(<<"NONE", "BIG_ENDIAN">>)

----------------------------------------------------------------------------
(* Sample Decoder: properties (under SpecDecode).                          *)

Decoded == image.kind # "none"

\* The case of C2: uncompressed little-endian, Monochrome2, one sample per
\* pixel, unsigned, 16/16/15, and rows * columns samples of two bytes each.
C2_Case ==
    /\ dicomImage.compression = "NONE"
    /\ dicomImage.endianness = "LITTLE_ENDIAN"
    /\ dicomImage.photometricInterpratation = "MONOCHROME2"
    /\ dicomImage.samplePerPixel = 1
    /\ dicomImage.pixelRepresentation = "UNSIGNED"
    /\ dicomImage.bitsAllocated = 16
    /\ dicomImage.bitsStored = 16
    /\ dicomImage.highBit = 15
    /\ Len(dicomImage.pixelData) = 2 * dicomImage.rows * dicomImage.columns

\* C2: in that case the result is a GrayScale raster with the same rows and
\* columns whose buffer holds the rows * columns 16-bit values the bytes encode
\* in little-endian order, in the same order, unscaled.
C2_RoundTrip ==
    (Decoded /\ C2_Case) =>
        image = Returned(
            [type |-> "grayScale",
             rows |-> dicomImage.rows,
             columns |-> dicomImage.columns,
             pixelData |->
                [bits |-> 16,
                 elements |-> [i \in 1..(dicomImage.rows * dicomImage.columns) |->
                                 dicomImage.pixelData[2 * i - 1]
                                   + 256 * dicomImage.pixelData[2 * i]]]])

C2_Witness ==
    /\ C2_Case
    /\ dicomImage.rows * dicomImage.columns = 2
    /\ dicomImage.pixelData = <<1, 127, 127, 127>>
    /\ image.kind = "return"
    /\ image.value.pixelData.elements = <<32513, 32639>>

\* The checks that come before the photometric one pass.
EarlierChecksPass ==
    /\ dicomImage.compression = "NONE"
    /\ dicomImage.samplePerPixel = 1
    /\ ~(dicomImage.pixelDataVr = "OW" /\ dicomImage.bitsAllocated # 16)

PhotometricFailure == Thrown("Error", "Not supported photometricInterpratation")

BitLayoutFailure == Thrown("Error", "Not supported combination of hightBit and bitsStored")

\* C3 as amended: a Monochrome1 image never decodes to a raster, and when the
\* image is uncompressed, single-sample, its VR check passes and
\* highBit + 1 = bitsStored, the failure is the photometric-interpretation one,
\* whatever bitsAllocated and pixelRepresentation are.
C3_Monochrome1Rejected ==
    (Decoded /\ dicomImage.photometricInterpratation = "MONOCHROME1") =>
        /\ image.kind = "throw"
        /\ (EarlierChecksPass /\ dicomImage.highBit + 1 = dicomImage.bitsStored) =>
               image = PhotometricFailure

C3_Witness ==
    /\ dicomImage.photometricInterpratation = "MONOCHROME1"
    /\ dicomImage.pixelRepresentation = "SIGNED"
    /\ dicomImage.bitsAllocated = 12
    /\ dicomImage.pixelDataVr = "OB"
    /\ image = PhotometricFailure

\* C3 as claimed: every uncompressed single-sample Monochrome1 image ends in the
\* photometric-interpretation failure, whatever its VR, bitsAllocated,
\* bitsStored, highBit and pixelRepresentation.
C3_AsClaimed ==
    (/\ Decoded
     /\ dicomImage.photometricInterpratation = "MONOCHROME1"
     /\ dicomImage.compression = "NONE"
     /\ dicomImage.samplePerPixel = 1) =>
        image = PhotometricFailure

\* The images C4 is about: uncompressed, single-sample, monochrome, with
\* highBit + 1 # bitsStored.
C4_Case ==
    /\ dicomImage.compression = "NONE"
    /\ dicomImage.samplePerPixel = 1
    /\ dicomImage.photometricInterpratation \in {"MONOCHROME1", "MONOCHROME2"}
    /\ dicomImage.highBit + 1 # dicomImage.bitsStored

\* C4 as amended: such an image ends in the bit-layout failure provided the VR
\* check before it passes (the VR is not OW, or bitsAllocated is 16), whatever
\* the photometric interpretation and pixelRepresentation are.
C4_BitLayoutRejected ==
    (/\ Decoded
     /\ C4_Case
     /\ ~(dicomImage.pixelDataVr = "OW" /\ dicomImage.bitsAllocated # 16)) =>
        image = BitLayoutFailure

C4_Witness ==
    /\ C4_Case
    /\ dicomImage.highBit = 7
    /\ dicomImage.bitsStored = 16
    /\ dicomImage.photometricInterpratation = "MONOCHROME1"
    /\ dicomImage.pixelRepresentation = "SIGNED"
    /\ dicomImage.pixelDataVr = "OW"
    /\ image = BitLayoutFailure

\* C4 as claimed: such an image ends in the bit-layout failure for every VR and
\* bitsAllocated.
C4_AsClaimed == (Decoded /\ C4_Case) => image = BitLayoutFailure

\* C6: neither the Sample Decoder nor the Metadata Extractor ends by throwing;
\* every failure is a returned failure value.
C6_NeverThrows ==
    /\ image.kind # "throw"
    /\ extracted.kind # "throw"

\* C7: for a big-endian source with bitsAllocated 16 or 32 each decoded sample
\* is the value of its bytes read in big-endian order.
C7_BigEndianRespected ==
    (/\ image.kind = "return"
     /\ dicomImage.endianness = "BIG_ENDIAN"
     /\ dicomImage.bitsAllocated \in {16, 32}) =>
        LET size == dicomImage.bitsAllocated \div 8 IN
        \A i \in 1..Len(image.value.pixelData.elements) :
            image.value.pixelData.elements[i]
                = BigEndianValue(SubSeq(dicomImage.pixelData, (i - 1) * size + 1, i * size))

\* The pixel-data byte length is a multiple of bitsAllocated / 8.
C11_WholeSamples == (8 * Len(dicomImage.pixelData)) % dicomImage.bitsAllocated = 0

\* The conditions C11 names for a raster.
C11_Decodable ==
    /\ dicomImage.compression = "NONE"
    /\ dicomImage.photometricInterpratation = "MONOCHROME2"
    /\ dicomImage.samplePerPixel = 1
    /\ dicomImage.pixelRepresentation = "UNSIGNED"
    /\ dicomImage.highBit + 1 = dicomImage.bitsStored
    /\ dicomImage.bitsAllocated \in {8, 16, 32}
    /\ (dicomImage.pixelDataVr = "OW" => dicomImage.bitsAllocated = 16)

\* C11: for a buffer of whole samples the decode returns a raster exactly when
\* those conditions hold; every raster returned, for any input, is of the
\* GrayScale kind with element width bitsAllocated, and none is an Rgb raster.
C11_AllOrNothingGrayScale ==
    Decoded =>
        /\ C11_WholeSamples => (image.kind = "return" <=> C11_Decodable)
        /\ image.kind = "return" =>
              /\ image.value.type = "grayScale"
              /\ image.value.type # "rgb"
              /\ image.value.pixelData.bits = dicomImage.bitsAllocated

C11_Witness ==
    /\ C11_WholeSamples
    /\ C11_Decodable
    /\ dicomImage.bitsAllocated = 32
    /\ Len(dicomImage.pixelData) = 4
    /\ image.kind = "return"
    /\ image.value.type = "grayScale"
    /\ image.value.pixelData.bits = 32

----------------------------------------------------------------------------
(* Metadata Extractor: properties (under SpecExtract).                     *)

MissingRows == Returned(Err("DicomImage need to have rows"))

\* C5: once the rows tag has been found absent the extractor has ended with the
\* missing-rows failure and has neither asked for the pixel-data element nor
\* copied a byte, whatever the transfer syntax UID tag held.
C5_MissingRowsFailsFast ==
    ("x00280010" \in observed /\ ds["x00280010"] = None) =>
        /\ pc = "done"
        /\ extracted = MissingRows
        /\ "x7fe00010" \notin observed
        /\ "byteArray" \notin observed
        /\ locals.pixelDataElement = None
        /\ locals.pixelData = None

C5_Witness ==
    /\ "x00280010" \in observed
    /\ ds["x00280010"] = None
    /\ ds["x00020012"] = Some("1.2.840.10008.1.2.4.80")
    /\ extracted = MissingRows

ExtractedOk == extracted.kind = "return" /\ extracted.value.tag = "Ok"

\* C10: in the extracted image the hint's function is the VOI LUT function tag
\* when that tag is present, Linear when it is absent and a window center is
\* present, and absent when both are absent, whatever the window width.
C10_VoiLutFunctionDefault ==
    ExtractedOk =>
        LET function == extracted.value.value.voiLutModule.voiLutFunction IN
        /\ ds["x00281056"] # None => function = ds["x00281056"]
        /\ (ds["x00281056"] = None /\ ds["x00281050"] # None) => function = Some("LINEAR")
        /\ (ds["x00281056"] = None /\ ds["x00281050"] = None) => function = None

C10_Witness ==
    /\ ExtractedOk
    /\ ds["x00281056"] = None
    /\ ds["x00281050"] = None
    /\ ds["x00281051"] = Some(400)
    /\ extracted.value.value.voiLutModule.voiLutFunction = None

----------------------------------------------------------------------------
(* PixelSpacing.fromString: properties (under SpecPixelSpacing).           *)

\* A field that is a number: digits with at most one decimal point and at
\* least one digit, and nothing else.
IsNumber(field) ==
    /\ \A i \in 1..Len(field) : IsDigit(field[i]) \/ field[i] = "."
    /\ Cardinality({i \in 1..Len(field) : field[i] = "."}) <= 1
    /\ \E i \in 1..Len(field) : IsDigit(field[i])

Fields(s) == Cardinality({i \in 1..Len(s) : s[i] = "\\"}) + 1

\* C9: fromString returns Ok only for exactly two backslash-separated fields
\* that are both numbers; any other input gets the parse error.
C9_StrictParse ==
    (pixelSpacing.kind = "return" /\ pixelSpacing.value.tag = "Ok") =>
        /\ Fields(str) = 2
        /\ \A i \in 1..2 : IsNumber(split(str)[i])

====
